---- MODULE Spec2Model ----
(***************************************************************************)
(* Model of the zundamahjong voice generation scripts:                     *)
(*   scripts/generate_voicevox_voices.py  (endpoint resolver + LINES batch) *)
(*   scripts/generate_quote_voices.py     (QUOTES batch + manifest)         *)
(*   update_voices.py                     (voices batch, no status checks)  *)
(*                                                                         *)
(* Two specifications share the module:                                    *)
(*   SpecResolver  the import-time endpoint resolution of                  *)
(*                 generate_voicevox_voices.py (lines 15-59);              *)
(*   Spec          one run of one of the three batch scripts against the   *)
(*                 speech service.                                         *)
(*                                                                         *)
(* Conventions.  A text string of the tables is represented by an integer  *)
(* id (the service never looks inside it here).  Float tuning values are   *)
(* represented by ten times their value (1.2 -> 12).  A token of the       *)
(* routing table is a sequence of characters, a character being its        *)
(* hexadecimal digit value 0..15, or a value outside 0..15 for any other   *)
(* character.                                                              *)
(***************************************************************************)
EXTENDS Integers, Sequences, FiniteSets, TLC

VARIABLES
    \* ---- endpoint resolver (generate_voicevox_voices.py, import time)
    environ,        \* os.environ restricted to the VOICEVOX_* names
    dns,            \* what socket.gethostbyname does for the alias
    route,          \* /proc/net/route: whether it can be opened, and its lines
    rpc,            \* position in the module-level code
    defaultHost,    \* DEFAULT_VOICEVOX_HOST
    defaultUrl,     \* DEFAULT_VOICEVOX_URL
    \* ---- batch run
    script,         \* which script is running
    svc,            \* the deterministic parameters of the speech service
    pc,             \* position in the script
    exitCode,       \* process exit status, -1 while the process runs
    ci,             \* index of the current category (quote script)
    li,             \* index of the current entry / line
    query,          \* the structured query held by the client
    wav,            \* the response body held by the client
    generated,      \* the counter of generate_voicevox_voices.main
    files,          \* output directory: filename -> content
    manifest,       \* the manifest accumulator, categories in insertion order
    manifestFile,   \* manifest.json of the output directory
    log             \* history: requests issued and files written, in order

resolverVars == <<environ, dns, route, rpc, defaultHost, defaultUrl>>
batchVars == <<script, svc, pc, exitCode, ci, li, query, wav, generated, files, manifest, manifestFile, log>>
vars == <<environ, dns, route, rpc, defaultHost, defaultUrl,
          script, svc, pc, exitCode, ci, li, query, wav, generated, files, manifest, manifestFile, log>>

(***************************************************************************)
(* Bounds                                                                  *)
(***************************************************************************)
\* number of lines of the routing table after the header line
MaxRouteLines == 2

(***************************************************************************)
(* Endpoint resolver                                                       *)
(***************************************************************************)
\* Characters of a routing-table token: 0..15 are the hexadecimal digits,
\* NonHexChar stands for any other character.
HexDigits == 0..15
NonHexChar == CHOOSE c \in 0..16 : c \notin HexDigits
\* /proc/net/route: whether open() succeeds, and the lines read.
NoFile == [exists |-> FALSE, lines |-> <<>>]
File(ls) == [exists |-> TRUE, lines |-> ls]

\* Results of the resolver's functions: a value, Python's None, or a raised exception.
None == [kind |-> "none", v |-> ""]
Value(s) == [kind |-> "value", v |-> s]
Raise(e) == [kind |-> "raise", v |-> e]

\* Python truthiness of an optional string: None and "" are falsy.
Truthy(x) == x.kind = "value" /\ x.v # ""

\* os.environ.get(name)
EnvGet(name) == IF name \in DOMAIN environ THEN Value(environ[name]) ELSE None

\* int(token, 16) for tokens made of hex digits; other characters raise ValueError.
IsHex(tok) == Len(tok) > 0 /\ \A k \in 1..Len(tok) : tok[k] \in HexDigits

\* int(token, 16).  Python integers are unbounded; the value is kept as its
\* base-256 digits, least significant first (digit k is bits 8k..8k+7).
HexDigitAt(tok, j) == IF j >= 1 /\ j <= Len(tok) THEN tok[j] ELSE 0
IntHex(tok) ==
    [k \in 1..((Len(tok) + 1) \div 2) |->
        16 * HexDigitAt(tok, Len(tok) - 2 * k + 1) + HexDigitAt(tok, Len(tok) - 2 * k + 2)]

\* g.to_bytes(4, byteorder="little") raises OverflowError unless 0 <= g < 2^32.
FitsIn(g, n) == \A k \in 1..Len(g) : k > n => g[k] = 0
ToBytesLittle(g, n) == [k \in 1..n |-> IF k <= Len(g) THEN g[k] ELSE 0]
ToBytesBig(g, n) == [k \in 1..n |-> IF n + 1 - k <= Len(g) THEN g[n + 1 - k] ELSE 0]

\* socket.inet_ntoa: the four bytes in order, in decimal, joined by dots.
InetNtoa(b) ==
    ToString(b[1]) \o "." \o ToString(b[2]) \o "." \o ToString(b[3]) \o "." \o ToString(b[4])

\* Lines 26-28 with the byte order reversed.
DecodeGatewayBigEndian(gateway) ==
    IF ~IsHex(gateway) THEN Raise("ValueError")
    ELSE LET g == IntHex(gateway) IN
         IF ~FitsIn(g, 4) THEN Raise("OverflowError")
         ELSE Value(InetNtoa(ToBytesBig(g, 4)))

\* Lines 26-28: decode the gateway field of the selected line.
DecodeGateway(gateway) ==
    IF ~IsHex(gateway) THEN Raise("ValueError")
    ELSE LET g == IntHex(gateway) IN
         IF ~FitsIn(g, 4) THEN Raise("OverflowError")
         ELSE Value(InetNtoa(ToBytesLittle(g, 4)))

AnyDestination == <<0, 0, 0, 0, 0, 0, 0, 0>>

\* Lines 18-28: the loop over f.readlines()[1:], from line i on.
RECURSIVE ScanRoute(_, _)
ScanRoute(lines, i) ==
    IF i > Len(lines) THEN None
    ELSE LET fields == lines[i] IN
         IF Len(fields) < 3 THEN ScanRoute(lines, i + 1)
         ELSE IF fields[2] # AnyDestination THEN ScanRoute(lines, i + 1)
         ELSE DecodeGateway(fields[3])

\* _get_default_gateway_linux: open() failing is an OSError, caught; the header is skipped.
GetDefaultGatewayLinux(table) ==
    IF ~table.exists THEN None
    ELSE ScanRoute(table.lines, 2)

\* _resolve_host_or_none: every failure of gethostbyname is an OSError, caught.
ResolveHostOrNone(host, outcome) ==
    IF outcome = "ok" THEN Value(host) ELSE None

\* _default_voicevox_host
DefaultVoicevoxHost(table, outcome) ==
    LET env_host == EnvGet("VOICEVOX_HOST") IN
    IF Truthy(env_host) THEN env_host
    ELSE IF Truthy(ResolveHostOrNone("host.docker.internal", outcome))
         THEN Value("host.docker.internal")
    ELSE LET gw == GetDefaultGatewayLinux(table) IN
         IF gw.kind = "raise" THEN gw
         ELSE IF Truthy(gw) THEN gw
         ELSE Value("127.0.0.1")

\* Line 58
DefaultVoicevoxPort ==
    LET p == EnvGet("VOICEVOX_PORT") IN IF Truthy(p) THEN p.v ELSE "50021"

\* Line 59
DefaultVoicevoxUrl(host) ==
    LET u == EnvGet("VOICEVOX_URL") IN
    IF Truthy(u) THEN u
    ELSE Value("http://" \o host \o ":" \o DefaultVoicevoxPort)

\* ---- inputs of the resolver
EnvNames == {"VOICEVOX_HOST", "VOICEVOX_PORT", "VOICEVOX_URL"}
EnvValues(name) ==
    CASE name = "VOICEVOX_HOST" -> {"", "10.0.0.5"}
      [] name = "VOICEVOX_PORT" -> {"50121"}
      [] name = "VOICEVOX_URL" -> {"", "http://vv.example:8080/"}
Environments ==
    UNION {{e \in [names -> {"", "10.0.0.5", "50121", "http://vv.example:8080/"}] :
               \A n \in names : e[n] \in EnvValues(n)} : names \in SUBSET EnvNames}

DnsOutcomes == {"ok", "gaierror", "herror"}

Iface == <<14>>
GwLoopback == <<0, 1, 0, 0, 0, 0, 7, 15>>          \* "0100007F"
GwLan == <<0, 1, 0, 1, 10, 8, 12, 0>>              \* "0101A8C0"
GwDocker == <<0, 1, 0, 0, 1, 1, 10, 12>>           \* "010011AC"
GwShort == <<7, 15>>                               \* "7F"
GwNotHex == <<NonHexChar, NonHexChar>>                     \* "ZZ"
GwTooWide == <<1, 15, 15, 15, 15, 15, 15, 15, 15>> \* "1FFFFFFFF"
Gateways == {GwLoopback, GwLan, GwDocker, GwShort, GwNotHex, GwTooWide}
LanDestination == <<0, 0, 0, 1, 10, 8, 12, 0>>     \* "0001A8C0"
HeaderLine == <<<<NonHexChar>>, <<NonHexChar>>, <<NonHexChar>>>>
RouteLines ==
    {<<>>, <<Iface, AnyDestination>>, <<Iface, LanDestination, GwLan>>}
    \cup {<<Iface, AnyDestination, gw>> : gw \in Gateways}
RouteHeaders == {HeaderLine, <<Iface, AnyDestination, GwDocker>>}

RECURSIVE SeqsUpTo(_, _)
SeqsUpTo(S, n) ==
    IF n = 0 THEN {<<>>}
    ELSE LET shorter == SeqsUpTo(S, n - 1) IN
         shorter \cup {Append(s, x) : s \in {t \in shorter : Len(t) = n - 1}, x \in S}

RouteTables ==
    {NoFile, File(<<>>)} \cup
    {File(<<h>> \o body) : h \in RouteHeaders, body \in SeqsUpTo(RouteLines, MaxRouteLines)}

(***************************************************************************)
(* Batch scripts: tables                                                   *)
(***************************************************************************)
\* generate_voicevox_voices.LINES: the filenames, in order; the text of
\* entry k is represented by the id k.
LINES ==
    <<"zunda_pon.wav", "zunda_chi.wav", "zunda_kan.wav", "zunda_riichi.wav",
      "zunda_ron.wav", "zunda_tsumo.wav", "zunda_tenpai.wav", "zunda_slow.wav",
      "zunda_dora.wav", "zunda_start.wav">>

\* generate_quote_voices.QUOTES: the categories in insertion order with the
\* number of lines of each; line i of category number c has the text id 100*c+i.
QUOTES ==
    <<[category |-> "DEFENSE", n |-> 2],
      [category |-> "OFFENSE", n |-> 2],
      [category |-> "SAFE_TILE", n |-> 2],
      [category |-> "EARLY_GAME", n |-> 2],
      [category |-> "DRAW_TENPAI", n |-> 1],
      [category |-> "DRAW_NOTEN", n |-> 1],
      [category |-> "WIN_SMALL", n |-> 1],
      [category |-> "WIN_BIG", n |-> 1],
      [category |-> "GAME_WIN", n |-> 1],
      [category |-> "PLAYER_WIN_LOW", n |-> 2],
      [category |-> "PLAYER_WIN_HIGH", n |-> 3],
      [category |-> "PLAYER_WIN_GENERIC", n |-> 2]>>

\* generate_quote_voices.VOICE_PARAMS (values times ten)
VOICE_PARAMS ==
    [c \in {"PLAYER_WIN_LOW", "PLAYER_WIN_HIGH", "PLAYER_WIN_GENERIC"} |->
        CASE c = "PLAYER_WIN_LOW" -> [speedScale |-> 12, pitchScale |-> 1]
          [] c = "PLAYER_WIN_HIGH" -> [intonationScale |-> 5, speedScale |-> 11, pitchScale |-> 0]
          [] c = "PLAYER_WIN_GENERIC" -> [speedScale |-> 13, intonationScale |-> 15]]

\* update_voices.voices (values times ten); the text of entry k has the id k.
voices ==
    <<[filename |-> "SAFE_TILE_1.wav", speed |-> 12, pitch |-> 0, intonation |-> 12],
      [filename |-> "WIN_SMALL_TSUMO_0.wav", speed |-> 11, pitch |-> 0, intonation |-> 11],
      [filename |-> "GAME_WIN_1.wav", speed |-> 12, pitch |-> 1, intonation |-> 13],
      [filename |-> "GAME_WIN_2.wav", speed |-> 11, pitch |-> 0, intonation |-> 8]>>

\* generate_quote_voices.main line 103, with the index counted from one.
QuoteFilenameFromOne(category, i) == category \o "_" \o ToString(i + 1) \o ".wav"

\* generate_quote_voices.main line 103: f"{category}_{i}.wav"
QuoteFilename(category, i) == category \o "_" \o ToString(i) \o ".wav"

\* The filenames a script writes, in processing order.
RECURSIVE QuoteEntries(_)
QuoteEntries(c) ==
    IF c > Len(QUOTES) THEN <<>>
    ELSE [i \in 1..QUOTES[c].n |-> QuoteFilename(QUOTES[c].category, i - 1)]
         \o QuoteEntries(c + 1)

Entries(s) ==
    CASE s = "voicevox" -> LINES
      [] s = "quote" -> QuoteEntries(1)
      [] s = "update" -> [k \in 1..Len(voices) |-> voices[k].filename]
      [] OTHER -> <<>>

Range(f) == {f[x] : x \in DOMAIN f}

(***************************************************************************)
(* The speech service and the HTTP client                                  *)
(***************************************************************************)
\* What one HTTP exchange can do: a success status with the documented body,
\* an error status with a JSON object as body, an error status with a body
\* that is not JSON, a refused/reset connection, a timeout.
Outcomes == {"ok", "http_json", "http_text", "conn", "timeout"}
HttpErrors == {"http_json", "http_text"}
TransportErrors == {"conn", "timeout"}

\* The structured queries the service produces: the tunable fields and
\* fields the scripts never touch.  svc selects the service's defaults.
ServiceProfiles ==
    {[speedScale |-> 10, pitchScale |-> 0, intonationScale |-> 10, volumeScale |-> 10],
     [speedScale |-> 12, pitchScale |-> 1, intonationScale |-> 9, volumeScale |-> 8]}

\* Body of a successful POST /audio_query for a text.
QueryFor(profile, text) ==
    [f \in DOMAIN profile \cup {"kana"} |-> IF f = "kana" THEN text ELSE profile[f]]

\* Body of an error response that is a JSON object.
ErrorDict == [detail |-> 500]
NoQuery == [unset |-> 0]

\* Response bodies and file contents.
NoContent == [kind |-> "none", body |-> NoQuery]
Absent == [kind |-> "absent", body |-> NoQuery]
OldContent == [kind |-> "old", body |-> NoQuery]
\* Body of a successful POST /synthesis: the audio rendered from the query sent.
Audio(q) == [kind |-> "wav", body |-> q]
ErrorContent(o) ==
    IF o = "http_json" THEN [kind |-> "errjson", body |-> ErrorDict]
    ELSE [kind |-> "errtext", body |-> NoQuery]

\* History records.
Event(ev, file, res, q, content) ==
    [ev |-> ev, file |-> file, res |-> res, q |-> q, content |-> content]

\* dict.update(other): keys of other are overwritten or added, the rest is kept.
DictUpdate(q, other) ==
    [f \in DOMAIN q \cup DOMAIN other |-> IF f \in DOMAIN other THEN other[f] ELSE q[f]]

\* Lines 107-109 with the values tested for truth instead of the dict:
\* a tuning value of 0.0 is dropped.
ApplyTuningSkipZero(q, category) ==
    IF category \in DOMAIN VOICE_PARAMS
    THEN LET t == VOICE_PARAMS[category] IN
         [f \in DOMAIN q \cup {g \in DOMAIN t : t[g] # 0} |->
             IF f \in DOMAIN t /\ t[f] # 0 THEN t[f] ELSE q[f]]
    ELSE q

\* generate_quote_voices.main lines 107-109: VOICE_PARAMS.get(category) is None
\* for a category without parameters; a non-empty dict is truthy.
ApplyTuning(q, category) ==
    IF category \in DOMAIN VOICE_PARAMS /\ DOMAIN VOICE_PARAMS[category] # {}
    THEN DictUpdate(q, VOICE_PARAMS[category])
    ELSE q

\* update_voices.generate_wav lines 38-40
SetScales(q, v) ==
    DictUpdate(q, [speedScale |-> v.speed, pitchScale |-> v.pitch,
                   intonationScale |-> v.intonation])

NoManifestFile == [written |-> FALSE, data |-> <<>>]

BatchIdle ==
    /\ script = "none" /\ svc = CHOOSE p \in ServiceProfiles : TRUE
    /\ pc = "idle" /\ exitCode = -1
    /\ ci = 0 /\ li = 0 /\ query = NoQuery /\ wav = NoContent /\ generated = 0
    /\ files = <<>> /\ manifest = <<>> /\ manifestFile = NoManifestFile /\ log = <<>>

InitResolver ==
    /\ environ \in Environments
    /\ dns \in DnsOutcomes
    /\ route \in RouteTables
    /\ rpc = "host"
    /\ defaultHost = None
    /\ defaultUrl = None
    /\ BatchIdle

\* Line 57: DEFAULT_VOICEVOX_HOST = _default_voicevox_host()
ComputeDefaultHost ==
    /\ rpc = "host"
    /\ defaultHost' = DefaultVoicevoxHost(route, dns)
    /\ rpc' = IF defaultHost'.kind = "raise" THEN "raised" ELSE "url"
    /\ UNCHANGED <<environ, dns, route, defaultUrl>>
    /\ UNCHANGED batchVars

\* Lines 58-59: DEFAULT_VOICEVOX_PORT, DEFAULT_VOICEVOX_URL
ComputeDefaultUrl ==
    /\ rpc = "url"
    /\ defaultUrl' = DefaultVoicevoxUrl(defaultHost.v)
    /\ rpc' = "resolved"
    /\ UNCHANGED <<environ, dns, route, defaultHost>>
    /\ UNCHANGED batchVars

NextResolver == ComputeDefaultHost \/ ComputeDefaultUrl

SpecResolver == InitResolver /\ [][NextResolver]_vars

(***************************************************************************)
(* Batch run: one run of one script                                        *)
(***************************************************************************)
Scripts == {"voicevox", "quote", "update"}

ResolverIdle ==
    /\ environ = [x \in {} |-> ""] /\ dns = "ok" /\ route = NoFile
    /\ rpc = "off" /\ defaultHost = None /\ defaultUrl = None

\* The output directory holds no file of the script, or the files of a former run.
Init ==
    /\ ResolverIdle
    /\ script \in Scripts
    /\ svc \in ServiceProfiles
    /\ pc = IF script = "update" THEN "query" ELSE "health"
    /\ exitCode = -1
    /\ ci = 1
    /\ li = IF script = "quote" THEN 0 ELSE 1
    /\ query = NoQuery
    /\ wav = NoContent
    /\ generated = 0
    /\ \E c \in {Absent, OldContent} : files = [f \in Range(Entries(script)) |-> c]
    /\ manifest = <<>>
    /\ manifestFile = NoManifestFile
    /\ log = <<>>

\* sys.exit(code), or an exception that reaches the top level (status 1).
Exit(code) == pc' = "exit" /\ exitCode' = code

\* ---- generate_voicevox_voices.main

\* Lines 131-143 with the healthcheck failure reported but not fatal.
VvCheckVoicevoxWarnOnly ==
    /\ script = "voicevox" /\ pc = "health"
    /\ \E o \in Outcomes :
        /\ log' = Append(log, Event("health", "", o, NoQuery, NoContent))
        /\ pc' = "query" /\ exitCode' = exitCode
    /\ UNCHANGED <<script, svc, ci, li, query, wav, generated, files, manifest, manifestFile>>
    /\ UNCHANGED resolverVars

\* Lines 131-143 with one exit status for every healthcheck failure.
VvCheckVoicevoxOneStatus ==
    /\ script = "voicevox" /\ pc = "health"
    /\ \E o \in Outcomes :
        /\ log' = Append(log, Event("health", "", o, NoQuery, NoContent))
        /\ IF o = "ok" THEN pc' = "query" /\ exitCode' = exitCode
           ELSE Exit(2)
    /\ UNCHANGED <<script, svc, ci, li, query, wav, generated, files, manifest, manifestFile>>
    /\ UNCHANGED resolverVars

\* Lines 131-143: check_voicevox and its two except clauses.
VvCheckVoicevox ==
    /\ script = "voicevox" /\ pc = "health"
    /\ \E o \in Outcomes :
        /\ log' = Append(log, Event("health", "", o, NoQuery, NoContent))
        /\ IF o = "ok" THEN pc' = "query" /\ exitCode' = exitCode
           ELSE IF o \in TransportErrors THEN Exit(2)
           ELSE Exit(3)
    /\ UNCHANGED <<script, svc, ci, li, query, wav, generated, files, manifest, manifestFile>>
    /\ UNCHANGED resolverVars

\* Lines 149, 151-153 with a failed item skipped instead of ending the run.
VvAudioQuerySkipOnFailure ==
    /\ script = "voicevox" /\ pc = "query"
    /\ \E o \in Outcomes :
        IF o = "ok"
        THEN /\ query' = QueryFor(svc, li)
             /\ log' = Append(log, Event("audio_query", LINES[li], o, query', NoContent))
             /\ pc' = "synth" /\ exitCode' = exitCode /\ li' = li
        ELSE /\ query' = query
             /\ log' = Append(log, Event("audio_query", LINES[li], o, NoQuery, NoContent))
             /\ IF li = Len(LINES) THEN Exit(4) /\ li' = li
                ELSE pc' = "query" /\ exitCode' = exitCode /\ li' = li + 1
    /\ UNCHANGED <<script, svc, ci, wav, generated, files, manifest, manifestFile>>
    /\ UNCHANGED resolverVars

\* Lines 149, 151-153: audio_query for the current entry.
VvAudioQuery ==
    /\ script = "voicevox" /\ pc = "query"
    /\ \E o \in Outcomes :
        IF o = "ok"
        THEN /\ query' = QueryFor(svc, li)
             /\ log' = Append(log, Event("audio_query", LINES[li], o, query', NoContent))
             /\ pc' = "synth" /\ exitCode' = exitCode /\ li' = li
        ELSE /\ query' = query
             /\ log' = Append(log, Event("audio_query", LINES[li], o, NoQuery, NoContent))
             /\ Exit(4) /\ li' = li
    /\ UNCHANGED <<script, svc, ci, wav, generated, files, manifest, manifestFile>>
    /\ UNCHANGED resolverVars

\* Lines 150-153: synthesis of the query, sent as returned.
VvSynthesis ==
    /\ script = "voicevox" /\ pc = "synth"
    /\ \E o \in Outcomes :
        IF o = "ok"
        THEN /\ wav' = Audio(query)
             /\ log' = Append(log, Event("synthesis", LINES[li], o, query, wav'))
             /\ pc' = "write" /\ exitCode' = exitCode
        ELSE /\ wav' = wav
             /\ log' = Append(log, Event("synthesis", LINES[li], o, query, NoContent))
             /\ Exit(4)
    /\ UNCHANGED <<script, svc, ci, li, query, generated, files, manifest, manifestFile>>
    /\ UNCHANGED resolverVars

\* Lines 154-158: write the file, count it, go to the next entry or finish.
VvWrite ==
    /\ script = "voicevox" /\ pc = "write"
    /\ files' = [files EXCEPT ![LINES[li]] = wav]
    /\ generated' = generated + 1
    /\ log' = Append(log, Event("write", LINES[li], "ok", NoQuery, wav))
    /\ IF li = Len(LINES) THEN Exit(0) /\ li' = li
       ELSE pc' = "query" /\ exitCode' = exitCode /\ li' = li + 1
    /\ UNCHANGED <<script, svc, ci, query, wav, manifest, manifestFile>>
    /\ UNCHANGED resolverVars

\* ---- generate_quote_voices.main

\* Lines 91-98: the version check; every exception is caught and reported
\* as a warning, then the manifest accumulator is created.
QtVersionCheck ==
    /\ script = "quote" /\ pc = "health"
    /\ \E o \in Outcomes :
        log' = Append(log, Event("health", "", o, NoQuery, NoContent))
    /\ manifest' = <<>>
    /\ pc' = "category"
    /\ UNCHANGED <<script, svc, exitCode, ci, li, query, wav, generated, files, manifestFile>>
    /\ UNCHANGED resolverVars

\* Lines 100-102: enter the next category and create its manifest list.
QtBeginCategory ==
    /\ script = "quote" /\ pc = "category" /\ ci <= Len(QUOTES)
    /\ manifest' = Append(manifest, [category |-> QUOTES[ci].category, names |-> <<>>])
    /\ li' = 0
    /\ IF QUOTES[ci].n = 0 THEN pc' = "category" /\ ci' = ci + 1
       ELSE pc' = "query" /\ ci' = ci
    /\ UNCHANGED <<script, svc, exitCode, query, wav, generated, files, manifestFile, log>>
    /\ UNCHANGED resolverVars

\* Lines 106, 114-116: audio_query for the current line; a failure is re-raised.
QtAudioQuery ==
    /\ script = "quote" /\ pc = "query"
    /\ LET filename == QuoteFilename(QUOTES[ci].category, li) IN
       \E o \in Outcomes :
        IF o = "ok"
        THEN /\ query' = QueryFor(svc, 100 * ci + li)
             /\ log' = Append(log, Event("audio_query", filename, o, query', NoContent))
             /\ pc' = "tune" /\ exitCode' = exitCode
        ELSE /\ query' = query
             /\ log' = Append(log, Event("audio_query", filename, o, NoQuery, NoContent))
             /\ Exit(1)
    /\ UNCHANGED <<script, svc, ci, li, wav, generated, files, manifest, manifestFile>>
    /\ UNCHANGED resolverVars

\* Lines 107-109: apply the category's tuning parameters.
QtTune ==
    /\ script = "quote" /\ pc = "tune"
    /\ query' = ApplyTuning(query, QUOTES[ci].category)
    /\ pc' = "synth"
    /\ UNCHANGED <<script, svc, exitCode, ci, li, wav, generated, files, manifest, manifestFile, log>>
    /\ UNCHANGED resolverVars

\* Lines 110, 114-116: synthesis; a failure is re-raised.
QtSynthesis ==
    /\ script = "quote" /\ pc = "synth"
    /\ LET filename == QuoteFilename(QUOTES[ci].category, li) IN
       \E o \in Outcomes :
        IF o = "ok"
        THEN /\ wav' = Audio(query)
             /\ log' = Append(log, Event("synthesis", filename, o, query, wav'))
             /\ pc' = "write" /\ exitCode' = exitCode
        ELSE /\ wav' = wav
             /\ log' = Append(log, Event("synthesis", filename, o, query, NoContent))
             /\ Exit(1)
    /\ UNCHANGED <<script, svc, ci, li, query, generated, files, manifest, manifestFile>>
    /\ UNCHANGED resolverVars

\* Line 111: out_path.write_bytes(wav)
QtWrite ==
    /\ script = "quote" /\ pc = "write"
    /\ LET filename == QuoteFilename(QUOTES[ci].category, li) IN
        /\ files' = [files EXCEPT ![filename] = wav]
        /\ log' = Append(log, Event("write", filename, "ok", NoQuery, wav))
    /\ pc' = "append"
    /\ UNCHANGED <<script, svc, exitCode, ci, li, query, wav, generated, manifest, manifestFile>>
    /\ UNCHANGED resolverVars

\* Line 112 with the name of the next line appended.
QtAppendNextName ==
    /\ script = "quote" /\ pc = "append"
    /\ manifest' = [manifest EXCEPT ![Len(manifest)].names =
                        Append(@, QuoteFilename(QUOTES[ci].category, li + 1))]
    /\ IF li + 1 < QUOTES[ci].n THEN li' = li + 1 /\ ci' = ci /\ pc' = "query"
       ELSE li' = li /\ ci' = ci + 1 /\ pc' = "category"
    /\ UNCHANGED <<script, svc, exitCode, query, wav, generated, files, manifestFile, log>>
    /\ UNCHANGED resolverVars

\* Lines 112-113 and the loop steps: record the filename, go to the next line
\* or leave the category.
QtAppend ==
    /\ script = "quote" /\ pc = "append"
    /\ manifest' = [manifest EXCEPT ![Len(manifest)].names =
                        Append(@, QuoteFilename(QUOTES[ci].category, li))]
    /\ IF li + 1 < QUOTES[ci].n THEN li' = li + 1 /\ ci' = ci /\ pc' = "query"
       ELSE li' = li /\ ci' = ci + 1 /\ pc' = "category"
    /\ UNCHANGED <<script, svc, exitCode, query, wav, generated, files, manifestFile, log>>
    /\ UNCHANGED resolverVars

\* Lines 118-119: serialize the manifest once, after the last category.
QtWriteManifest ==
    /\ script = "quote" /\ pc = "category" /\ ci > Len(QUOTES)
    /\ manifestFile' = [written |-> TRUE, data |-> manifest]
    /\ log' = Append(log, Event("manifest", "manifest.json", "ok", NoQuery, NoContent))
    /\ Exit(0)
    /\ UNCHANGED <<script, svc, ci, li, query, wav, generated, files, manifest>>
    /\ UNCHANGED resolverVars

\* ---- update_voices (module-level loop over voices, generate_wav)

\* Line 37: requests.post(...).json() with no timeout and no status check.
\* A transport error propagates; the body of an error response is parsed
\* like any other, and a body that is not JSON raises.
UvAudioQuery ==
    /\ script = "update" /\ pc = "query"
    /\ \E o \in Outcomes \ {"timeout"} :
        IF o \in {"conn", "http_text"}
        THEN /\ query' = query
             /\ log' = Append(log, Event("audio_query", voices[li].filename, o, NoQuery, NoContent))
             /\ Exit(1)
        ELSE /\ query' = IF o = "ok" THEN QueryFor(svc, li) ELSE ErrorDict
             /\ log' = Append(log, Event("audio_query", voices[li].filename, o, query', NoContent))
             /\ pc' = "tune" /\ exitCode' = exitCode
    /\ UNCHANGED <<script, svc, ci, li, wav, generated, files, manifest, manifestFile>>
    /\ UNCHANGED resolverVars

\* Lines 38-40: the three scale fields are assigned.
UvTune ==
    /\ script = "update" /\ pc = "tune"
    /\ query' = SetScales(query, voices[li])
    /\ pc' = "synth"
    /\ UNCHANGED <<script, svc, exitCode, ci, li, wav, generated, files, manifest, manifestFile, log>>
    /\ UNCHANGED resolverVars

\* Lines 41-46: synthesis with no timeout and no status check; res.content is
\* whatever body came back.
UvSynthesis ==
    /\ script = "update" /\ pc = "synth"
    /\ \E o \in Outcomes \ {"timeout"} :
        IF o = "conn"
        THEN /\ wav' = wav
             /\ log' = Append(log, Event("synthesis", voices[li].filename, o, query, NoContent))
             /\ Exit(1)
        ELSE /\ wav' = IF o = "ok" THEN Audio(query) ELSE ErrorContent(o)
             /\ log' = Append(log, Event("synthesis", voices[li].filename, o, query, wav'))
             /\ pc' = "write" /\ exitCode' = exitCode
    /\ UNCHANGED <<script, svc, ci, li, query, generated, files, manifest, manifestFile>>
    /\ UNCHANGED resolverVars

\* Lines 47-53: write res.content, go to the next voice or finish.
UvWrite ==
    /\ script = "update" /\ pc = "write"
    /\ files' = [files EXCEPT ![voices[li].filename] = wav]
    /\ log' = Append(log, Event("write", voices[li].filename, "ok", NoQuery, wav))
    /\ IF li = Len(voices) THEN Exit(0) /\ li' = li
       ELSE pc' = "query" /\ exitCode' = exitCode /\ li' = li + 1
    /\ UNCHANGED <<script, svc, ci, query, wav, generated, manifest, manifestFile>>
    /\ UNCHANGED resolverVars

Next ==
    \/ VvCheckVoicevox \/ VvAudioQuery \/ VvSynthesis \/ VvWrite
    \/ QtVersionCheck \/ QtBeginCategory \/ QtAudioQuery \/ QtTune
    \/ QtSynthesis \/ QtWrite \/ QtAppend \/ QtWriteManifest
    \/ UvAudioQuery \/ UvTune \/ UvSynthesis \/ UvWrite

Spec == Init /\ [][Next]_vars

(***************************************************************************)
(* Properties                                                              *)
(***************************************************************************)
LogIdx == 1..Len(log)
IsRequest(e) == e.ev \in {"audio_query", "synthesis"}
\* Position of a filename in the processing order of the running script.
Pos(fn) == CHOOSE k \in 1..Len(Entries(script)) : Entries(script)[k] = fn
WritesOf(fn) == {w \in LogIdx : log[w].ev = "write" /\ log[w].file = fn}
EventsOf(ev, fn) == {p \in LogIdx : log[p].ev = ev /\ log[p].file = fn}
HealthFailed == Len(log) >= 1 /\ log[1].ev = "health" /\ log[1].res # "ok"
NotWrittenYet(fn) == files[fn] \in {Absent, OldContent}

\* C1: in generate_voicevox_voices.main and generate_quote_voices.main, when
\* the query step or the synthesis step of item k fails (HTTP error status,
\* connection error, timeout), the process has terminated with a nonzero
\* status, the failed request is the last thing the run ever did (no later
\* request, no later write), no file was written for item k or any later
\* item, and every item before k has its file, written once, holding the
\* bytes its synthesis step returned.
C1_AbortOnFirstFailure ==
    script \in {"voicevox", "quote"} =>
        \A p \in LogIdx :
            (IsRequest(log[p]) /\ log[p].res # "ok") =>
                LET k == Pos(log[p].file) IN
                /\ pc = "exit" /\ exitCode > 0
                /\ p = Len(log)
                /\ \A r \in LogIdx : IsRequest(log[r]) => Pos(log[r].file) <= k
                /\ \A w \in LogIdx : log[w].ev = "write" => Pos(log[w].file) < k
                /\ \A j \in 1..Len(Entries(script)) :
                    LET fn == Entries(script)[j] IN
                    IF j < k
                    THEN /\ Cardinality(WritesOf(fn)) = 1
                         /\ \E s \in EventsOf("synthesis", fn) :
                                log[s].res = "ok" /\ files[fn] = log[s].content
                    ELSE NotWrittenYet(fn)

\* Witness of C1: the query step of the third LINES entry got an HTTP error
\* status after two entries were generated.
C1_Witness ==
    /\ script = "voicevox" /\ pc = "exit"
    /\ Len(log) >= 1
    /\ log[Len(log)].ev = "audio_query" /\ log[Len(log)].res = "http_text"
    /\ log[Len(log)].file = LINES[3]
    /\ files[LINES[1]].kind = "wav" /\ files[LINES[2]].kind = "wav"

C3_HealthFailureAbortsBoth ==
    (script \in {"voicevox", "quote"} /\ HealthFailed) =>
        /\ pc = "exit" /\ exitCode > 0
        /\ Len(log) = 1
        /\ \A fn \in DOMAIN files : NotWrittenYet(fn)
        /\ ~manifestFile.written

\* C3 amended: in generate_voicevox_voices.main a failed health check
\* (GET /speakers) ends the run with a nonzero status before any per-item
\* request is issued and before any file is written; in
\* generate_quote_voices.main a failed GET /version check does not end the
\* run: the run is still going right after it and ends only after a
\* per-item request has been issued.
C3_HealthFailureAbortsVoicevoxOnly ==
    /\ (script = "voicevox" /\ HealthFailed) =>
        /\ pc = "exit" /\ exitCode > 0
        /\ Len(log) = 1
        /\ \A fn \in DOMAIN files : NotWrittenYet(fn)
    /\ (script = "quote" /\ HealthFailed) =>
        /\ Len(log) = 1 => (pc # "exit" /\ exitCode = -1)
        /\ pc = "exit" => (Len(log) > 1 /\ IsRequest(log[2]))

\* Witness of C3: the GET /speakers check timed out and the run ended with
\* status 2.
C3_Witness ==
    /\ script = "voicevox" /\ HealthFailed /\ log[1].res = "timeout"
    /\ pc = "exit" /\ exitCode = 2

\* The filenames the tables declare.
DeclaredNames ==
    IF script = "voicevox" THEN {LINES[j] : j \in 1..Len(LINES)}
    ELSE UNION {{QUOTES[c].category \o "_" \o ToString(i) \o ".wav" : i \in 0..(QUOTES[c].n - 1)} :
                    c \in 1..Len(QUOTES)}
DeclaredCount ==
    IF script = "voicevox" THEN Len(LINES)
    ELSE LET RECURSIVE Sum(_)
             Sum(c) == IF c = 0 THEN 0 ELSE QUOTES[c].n + Sum(c - 1)
         IN Sum(Len(QUOTES))

\* C4: when every request of a run of generate_voicevox_voices.main or
\* generate_quote_voices.main was answered successfully, the finished run
\* (status 0) has written exactly one file per table entry, named by the
\* entry's filename (LINES) or '<category>_<index>.wav' with the index from 0
\* (QUOTES), each file holds exactly the bytes the synthesis step returned for
\* that entry, and no entry was written twice.
C4_OneFilePerEntry ==
    (script \in {"voicevox", "quote"} /\ pc = "exit" /\ \A p \in LogIdx : log[p].res = "ok") =>
        /\ exitCode = 0
        /\ Cardinality(DeclaredNames) = DeclaredCount
        /\ {log[w].file : w \in {x \in LogIdx : log[x].ev = "write"}} = DeclaredNames
        /\ \A fn \in DeclaredNames :
            /\ Cardinality(WritesOf(fn)) = 1
            /\ Cardinality(EventsOf("synthesis", fn)) = 1
            /\ \A s \in EventsOf("synthesis", fn) :
                /\ log[s].content.kind = "wav"
                /\ fn \in DOMAIN files /\ files[fn] = log[s].content

\* Witness of C4: a run of the quote script over files of a former run ended
\* with every request answered and the last file of the table rewritten.
C4_Witness ==
    /\ script = "quote" /\ pc = "exit" /\ exitCode = 0
    /\ \A p \in LogIdx : log[p].res = "ok"
    /\ "PLAYER_WIN_GENERIC_1.wav" \in DOMAIN files
    /\ files["PLAYER_WIN_GENERIC_1.wav"].kind = "wav"
    /\ files["DEFENSE_0.wav"].kind = "wav"

\* The tuning parameters a table supplies for the entry written to fn.
NoTuning == [f \in {} |-> 0]
SuppliedTuning(fn) ==
    CASE script = "quote" ->
            LET c == CHOOSE x \in 1..Len(QUOTES) :
                        \E i \in 0..(QUOTES[x].n - 1) :
                            fn = QUOTES[x].category \o "_" \o ToString(i) \o ".wav"
                cat == QUOTES[c].category
            IN CASE cat = "PLAYER_WIN_LOW" -> [speedScale |-> 12, pitchScale |-> 1]
                 [] cat = "PLAYER_WIN_HIGH" ->
                        [intonationScale |-> 5, speedScale |-> 11, pitchScale |-> 0]
                 [] cat = "PLAYER_WIN_GENERIC" -> [speedScale |-> 13, intonationScale |-> 15]
                 [] OTHER -> NoTuning
      [] script = "update" ->
            LET v == voices[CHOOSE k \in 1..Len(voices) : voices[k].filename = fn] IN
            [speedScale |-> v.speed, pitchScale |-> v.pitch, intonationScale |-> v.intonation]
      [] OTHER -> NoTuning

\* C5: every synthesis request directly follows the audio_query of the same
\* entry, and the query it sends is the query that audio_query returned with
\* exactly the supplied tuning fields (among speedScale, pitchScale,
\* intonationScale) set to the supplied values and every other field as
\* returned; with no tuning parameters the query is sent unchanged.
C5_TuningFrame ==
    \A p \in LogIdx :
        log[p].ev = "synthesis" =>
            /\ p > 1
            /\ log[p - 1].ev = "audio_query" /\ log[p - 1].file = log[p].file
            /\ LET returned == log[p - 1].q
                   sent == log[p].q
                   t == SuppliedTuning(log[p].file)
               IN /\ DOMAIN t \subseteq {"speedScale", "pitchScale", "intonationScale"}
                  /\ DOMAIN sent = DOMAIN returned \cup DOMAIN t
                  /\ \A f \in DOMAIN sent :
                        sent[f] = IF f \in DOMAIN t THEN t[f] ELSE returned[f]
                  /\ (DOMAIN t = {}) => sent = returned

\* Witness of C5: a PLAYER_WIN_HIGH line (pitchScale 0.0 supplied) was sent to
\* synthesis after the service returned a query with another pitchScale.
C5_Witness ==
    /\ script = "quote"
    /\ \E p \in LogIdx :
        /\ p > 1
        /\ log[p].ev = "synthesis" /\ log[p].file = "PLAYER_WIN_HIGH_0.wav"
        /\ log[p - 1].q.pitchScale = 1 /\ log[p].q.pitchScale = 0
        /\ log[p].q.volumeScale = log[p - 1].q.volumeScale

\* C6: in generate_quote_voices.main the manifest written by a fully
\* successful run has exactly the categories of QUOTES as keys, in table
\* order, each with the list of its generated filenames in input order and of
\* the category's length; manifest.json is written only by a run that ends
\* with status 0; and at every point every filename in the accumulated
\* manifest belongs to a file this run has already written.
C6_Manifest ==
    script = "quote" =>
        /\ (pc = "exit" /\ exitCode = 0) =>
            /\ manifestFile.written
            /\ Len(manifestFile.data) = Len(QUOTES)
            /\ \A c \in 1..Len(QUOTES) :
                /\ manifestFile.data[c].category = QUOTES[c].category
                /\ Len(manifestFile.data[c].names) = QUOTES[c].n
                /\ \A i \in 1..QUOTES[c].n :
                    manifestFile.data[c].names[i] =
                        QUOTES[c].category \o "_" \o ToString(i - 1) \o ".wav"
        /\ manifestFile.written => (pc = "exit" /\ exitCode = 0)
        /\ \A c \in 1..Len(manifest) :
            \A i \in 1..Len(manifest[c].names) :
                LET fn == manifest[c].names[i] IN
                /\ WritesOf(fn) # {}
                /\ fn \in DOMAIN files /\ files[fn].kind = "wav"

\* Witness of C6: a fully successful run wrote the manifest with the three
\* filenames of PLAYER_WIN_HIGH.
C6_Witness ==
    /\ script = "quote" /\ pc = "exit" /\ exitCode = 0
    /\ manifestFile.written
    /\ Len(manifestFile.data) = 12
    /\ manifestFile.data[11].names =
        <<"PLAYER_WIN_HIGH_0.wav", "PLAYER_WIN_HIGH_1.wav", "PLAYER_WIN_HIGH_2.wav">>

\* The host the stated resolution order yields, a step that gives no answer
\* falling through to the next.
ExpectedHost ==
    IF "VOICEVOX_HOST" \in DOMAIN environ /\ environ["VOICEVOX_HOST"] # ""
    THEN environ["VOICEVOX_HOST"]
    ELSE IF dns = "ok" THEN "host.docker.internal"
    ELSE LET gw == GetDefaultGatewayLinux(route) IN
         IF gw.kind = "value" THEN gw.v ELSE "127.0.0.1"

\* C7: once the module-level resolution is over, the endpoint is the
\* non-empty VOICEVOX_URL override unmodified whatever DNS and the routing
\* table are; otherwise it is built from the host chosen in the fixed order
\* non-empty VOICEVOX_HOST, alias host.docker.internal if it resolves,
\* decoded default gateway if one is found, loopback 127.0.0.1.
C7_ResolutionOrder ==
    rpc \in {"resolved", "raised"} =>
        IF "VOICEVOX_URL" \in DOMAIN environ /\ environ["VOICEVOX_URL"] # ""
        THEN defaultUrl = Value(environ["VOICEVOX_URL"])
        ELSE defaultUrl = Value("http://" \o ExpectedHost \o ":" \o DefaultVoicevoxPort)

\* C8: every resolution step fails soft: whatever DNS does and whatever the
\* routing table holds, _default_voicevox_host returns a host value and
\* never terminates with an error.
C8_ResolverFailsSoft ==
    rpc # "host" => (rpc # "raised" /\ defaultHost.kind = "value")

\* The routing-table lines after the header that have a gateway field and
\* the destination '00000000'.
DefaultRouteLines ==
    {i \in 2..Len(route.lines) :
        Len(route.lines[i]) >= 3 /\ route.lines[i][2] = <<0, 0, 0, 0, 0, 0, 0, 0>>}

\* The dotted address B0.B1.B2.B3 of a gateway written B3 B2 B1 B0.
DottedLittleEndian(gw) ==
    ToString(16 * gw[7] + gw[8]) \o "." \o ToString(16 * gw[5] + gw[6]) \o "."
        \o ToString(16 * gw[3] + gw[4]) \o "." \o ToString(16 * gw[1] + gw[2])

\* C9: when the gateway probe decides the host (no VOICEVOX_HOST, alias not
\* resolving, routing table readable): the header line is skipped; the first
\* later line with destination '00000000' and a gateway field is selected and
\* its 8-hex-digit gateway B3 B2 B1 B0 yields B0.B1.B2.B3 ('0100007F' yields
\* '127.0.0.1'); with no such line the probe has no answer, whatever the
\* other lines hold.
C9_GatewayDecoding ==
    (/\ rpc # "host"
     /\ ~("VOICEVOX_HOST" \in DOMAIN environ /\ environ["VOICEVOX_HOST"] # "")
     /\ dns # "ok"
     /\ route.exists) =>
        IF DefaultRouteLines = {}
        THEN defaultHost = Value("127.0.0.1")
        ELSE LET first == CHOOSE i \in DefaultRouteLines :
                              \A j \in DefaultRouteLines : i <= j
                 gw == route.lines[first][3]
             IN (Len(gw) = 8 /\ \A k \in 1..8 : gw[k] \in 0..15) =>
                    /\ defaultHost = Value(DottedLittleEndian(gw))
                    /\ (gw = <<0, 1, 0, 0, 0, 0, 7, 15>>) => defaultHost.v = "127.0.0.1"

\* Witness of C9: a table whose header looks like a default route, followed
\* by a LAN route and then the default route with gateway '0101A8C0', was
\* decoded to 192.168.1.1.
C9_Witness ==
    /\ rpc = "resolved"
    /\ "VOICEVOX_HOST" \notin DOMAIN environ /\ dns = "gaierror"
    /\ route = File(<<<<Iface, AnyDestination, GwDocker>>,
                      <<Iface, LanDestination, GwLan>>,
                      <<Iface, AnyDestination, GwLan>>>>)
    /\ defaultHost = Value("192.168.1.1")

\* C10: in every script, for every request: at most one audio_query and at
\* most one synthesis call are issued, synthesis is issued only after the
\* query step returned a success status, the file is written only after the
\* synthesis step returned a success status, and no file is written for a
\* request one of whose steps failed.
C10_NoRetryStatusChecked ==
    \A fn \in Range(Entries(script)) :
        /\ Cardinality(EventsOf("audio_query", fn)) <= 1
        /\ Cardinality(EventsOf("synthesis", fn)) <= 1
        /\ \A s \in EventsOf("synthesis", fn) :
            \E a \in EventsOf("audio_query", fn) : a < s /\ log[a].res = "ok"
        /\ \A w \in WritesOf(fn) :
            \E s \in EventsOf("synthesis", fn) : s < w /\ log[s].res = "ok"
        /\ (\E p \in LogIdx : IsRequest(log[p]) /\ log[p].file = fn /\ log[p].res # "ok")
            => WritesOf(fn) = {}

====
